---- MODULE Spec2Model ----
(***************************************************************************)
(* Model of StockCorrelationAnalysis_TS_Final.py: parse_tickers,           *)
(* get_price_data and the linear pipeline of main (resolve tickers, fetch, *)
(* CSV export, returns/correlation, cleaning, normalisation, two charts,   *)
(* top-pairs report).                                                      *)
(*                                                                         *)
(* Library semantics are those of the pandas 1.x/2.x and numpy defaults    *)
(* the script is written against: DataFrame.dropna(how="any"),             *)
(* pct_change(fill_method="pad"), corr(method="pearson", min_periods=1)    *)
(* over pairwise-complete rows, stack(dropna=True), head(5).  Arithmetic   *)
(* is exact (fractions), so floating-point rounding is not modelled.       *)
(***************************************************************************)
EXTENDS Integers, Sequences, FiniteSets, TLC

\* ---------------------------------------------------------------- bounds
\* longest string handed to parse_tickers in SpecParse
MaxLen == 4
\* longest --tickers value / prompt answer in main
MaxArgLen == 3
\* most requested tickers for which the provider returns any price
MaxLive == 1
\* most date rows the provider returns (main)
MaxRows == 2
\* most date rows of a fetched price table (SpecDerived)
MaxDates == 2
\* correlation values of SpecTop are k / MaxLevel, k in -MaxLevel..MaxLevel
MaxLevel == 1

\* ------------------------------------------------------- program constants
\* top_pairs.head(5)
TopN == 5
\* tickers[:5] in the CSV file name
NameTickers == 5

\* ------------------------------------------------------------ input sets
\* characters of the strings given to parse_tickers
ParseAlphabet == {"a", "B", " ", ","}
\* characters of the --tickers value and of the prompt answer
ArgAlphabet == {"a", ",", " "}
\* price levels the provider reports: zero (a legal float price) and a
\* positive price other than 1
PriceLevels == {0, 2}
\* tickers of the price tables of SpecDerived
DerivedTickers == << <<"A">>, <<"B">>, <<"C">> >>
\* tickers of the correlation matrices of SpecTop
TopTickers == << <<"A">>, <<"B">>, <<"C">>, <<"D">> >>

\* ------------------------------------------------------------- utilities
Range(q) == {q[i] : i \in 1..Len(q)}

Min(a, b) == IF a <= b THEN a ELSE b

Abs(x) == IF x < 0 THEN -x ELSE x

RECURSIVE GCD(_, _)
GCD(a, b) == IF b = 0 THEN a ELSE GCD(b, a % b)

RECURSIVE SumOver(_, _)
\* sum of f[x] for x in S
SumOver(f, S) ==
  IF S = {} THEN 0
  ELSE LET x == CHOOSE y \in S : TRUE IN f[x] + SumOver(f, S \ {x})

RECURSIVE LcmOver(_, _)
\* least common multiple of f[x] for x in S (1 for the empty set)
LcmOver(f, S) ==
  IF S = {} THEN 1
  ELSE LET x == CHOOSE y \in S : TRUE
           r == LcmOver(f, S \ {x})
       IN (r * f[x]) \div GCD(r, f[x])

\* all strings (sequences of characters) over alphabet A of length <= n
StringsUpTo(A, n) == UNION {[1..k -> A] : k \in 0..n}

\* --------------------------------------------------------------- strings
\* a Python str argument that may be None
Str(chars) == [present |-> TRUE, chars |-> chars]

None == [present |-> FALSE, chars |-> <<>>]

\* truthiness of an optional str: None and "" are falsy
Truthy(s) == s.present /\ s.chars # <<>>

\* the characters str.strip() removes
Whitespace == {" "}

\* str.upper() on one character
UpperChar(c) ==
  CASE c = "a" -> "A"
    [] c = "b" -> "B"
    [] OTHER -> c

\* str.upper()
Upper(t) == [i \in 1..Len(t) |-> UpperChar(t[i])]

RECURSIVE LStrip(_)
LStrip(t) ==
  IF t # <<>> /\ Head(t) \in Whitespace THEN LStrip(Tail(t)) ELSE t

RECURSIVE RStrip(_)
RStrip(t) ==
  IF t # <<>> /\ t[Len(t)] \in Whitespace
  THEN RStrip(SubSeq(t, 1, Len(t) - 1)) ELSE t

\* str.strip()
Strip(t) == RStrip(LStrip(t))

RECURSIVE Split(_)
\* str.split(","): one piece more than there are commas
Split(t) ==
  IF \A i \in 1..Len(t) : t[i] # ","
  THEN <<t>>
  ELSE LET i == CHOOSE j \in 1..Len(t) :
                  t[j] = "," /\ \A h \in 1..(j - 1) : t[h] # ","
       IN <<SubSeq(t, 1, i - 1)>> \o Split(SubSeq(t, i + 1, Len(t)))

\* a plausible slip: the "if t.strip()" filter tests the unstripped token
StripUpperNoFilter(pieces) ==
  [i \in 1..Len(SelectSeq(pieces, LAMBDA t : t # <<>>)) |->
     Upper(Strip(SelectSeq(pieces, LAMBDA t : t # <<>>)[i]))]

RECURSIVE StripUpperNonEmpty(_)
\* [t.strip().upper() for t in pieces if t.strip()]
StripUpperNonEmpty(pieces) ==
  IF pieces = <<>> THEN <<>>
  ELSE LET t == Strip(Head(pieces)) IN
       (IF t # <<>> THEN <<Upper(t)>> ELSE <<>>)
         \o StripUpperNonEmpty(Tail(pieces))

parse_tickers(s) ==
  IF ~Truthy(s) THEN <<>> ELSE StripUpperNonEmpty(Split(s.chars))

\* ---------------------------------------------------------- float values
\* a float cell: a finite number n/d in lowest terms, NaN or +inf
\* (prices are never negative, so -inf cannot arise)
NaN == [k |-> "nan", n |-> 0, d |-> 1]

Inf == [k |-> "inf", n |-> 0, d |-> 1]

Frac(n, d) ==
  LET g == GCD(Abs(n), d) IN [k |-> "num", n |-> n \div g, d |-> d \div g]

\* pandas isna(): NaN is missing, inf is not
IsNa(x) == x.k = "nan"

IsFinite(x) == x.k = "num"

\* float division x / y of non-negative values
FDiv(x, y) ==
  IF IsNa(x) \/ IsNa(y) THEN NaN
  ELSE IF x.k = "inf" THEN (IF y.k = "inf" THEN NaN ELSE Inf)
  ELSE IF y.k = "inf" THEN Frac(0, 1)
  ELSE IF y.n = 0 THEN (IF x.n = 0 THEN NaN ELSE Inf)
  ELSE Frac(x.n * y.d, x.d * y.n)

\* x - 1
FSubOne(x) == IF IsFinite(x) THEN Frac(x.n - x.d, x.d) ELSE x

\* replace([np.inf, -np.inf], np.nan) on one cell
InfToNaN(x) == IF x.k = "inf" THEN NaN ELSE x

\* ------------------------------------------------------------ data frames
\* a DataFrame: ordered column labels, ordered date index, one cell per pair
Frame(cols, idx, val) == [cols |-> cols, idx |-> idx, val |-> val]

\* the (column, date) pairs of a frame with these labels
Cells(cols, idx) == Range(cols) \X Range(idx)

EmptyFrame == [cols |-> <<>>, idx |-> <<>>, val |-> <<>>]

\* DataFrame.empty: some axis has length 0
IsEmpty(t) == Len(t.cols) = 0 \/ Len(t.idx) = 0

\* t[c].dropna().empty is false: the column has a non-missing cell
ColHasData(t, c) == \E d \in Range(t.idx) : ~IsNa(t.val[<<c, d>>])

RowHasData(t, d) == \E c \in Range(t.cols) : ~IsNa(t.val[<<c, d>>])

RowComplete(t, d) == \A c \in Range(t.cols) : ~IsNa(t.val[<<c, d>>])

\* t[cols] / t.loc[idx]: the frame restricted to the given labels
Restrict(t, cols, idx) ==
  Frame(cols, idx, [p \in Cells(cols, idx) |-> t.val[p]])

\* dropna(how="all"): drop the rows whose cells are all missing
DropRowsAllNa(t) ==
  Restrict(t, t.cols, SelectSeq(t.idx, LAMBDA d : RowHasData(t, d)))

\* dropna(): drop the rows with any missing cell
DropRowsAnyNa(t) ==
  Restrict(t, t.cols, SelectSeq(t.idx, LAMBDA d : RowComplete(t, d)))

\* dropna(axis=1, how="all"): drop the columns whose cells are all missing
DropColsAllNa(t) ==
  Restrict(t, SelectSeq(t.cols, LAMBDA c : ColHasData(t, c)), t.idx)

\* position of date d in the index
Pos(t, d) == CHOOSE i \in 1..Len(t.idx) : t.idx[i] = d

RECURSIVE Ffill(_, _, _)
\* fillna(method="pad"): the last non-missing cell of column c at or before
\* position i (NaN when there is none)
Ffill(t, c, i) ==
  IF i = 0 THEN NaN
  ELSE IF ~IsNa(t.val[<<c, t.idx[i]>>]) THEN t.val[<<c, t.idx[i]>>]
  ELSE Ffill(t, c, i - 1)

\* pct_change(): padded / padded.shift(1) - 1, same columns and index
PctChange(t) ==
  Frame(t.cols, t.idx,
        [p \in Cells(t.cols, t.idx) |->
           IF Pos(t, p[2]) = 1 THEN NaN
           ELSE FSubOne(FDiv(Ffill(t, p[1], Pos(t, p[2])),
                             Ffill(t, p[1], Pos(t, p[2]) - 1)))])

\* a plausible slip: dropna(how="all") instead of dropna()
ReturnsDropAll(p) == DropRowsAllNa(PctChange(p))

\* prices.pct_change().dropna()
Returns(p) == DropRowsAnyNa(PctChange(p))

\* ------------------------------------------------------------ correlation
\* the rows DataFrame.corr uses for the pair (a, b): both cells non-missing
PairObs(r, a, b) ==
  {d \in Range(r.idx) : ~IsNa(r.val[<<a, d>>]) /\ ~IsNa(r.val[<<b, d>>])}

Sgn(x) == IF x > 0 THEN 1 ELSE IF x < 0 THEN -1 ELSE 0

\* Pearson correlation of columns a and b over their pairwise-complete rows.
\* The cell holds sign(r) * r^2 as an exact fraction: r itself is irrational
\* in general, and the encoding is strictly increasing in r on [-1, 1], so
\* order, sign, the values -1, 0, 1 and definedness are those of r.
\* NaN: no row (min_periods = 1), an infinite return, or zero variance.
Pearson(r, a, b) ==
  LET obs == PairObs(r, a, b)
      N   == Cardinality(obs)
      L   == LcmOver([d \in obs |-> r.val[<<a, d>>].d * r.val[<<b, d>>].d], obs)
      X   == [d \in obs |-> r.val[<<a, d>>].n * (L \div r.val[<<a, d>>].d)]
      Y   == [d \in obs |-> r.val[<<b, d>>].n * (L \div r.val[<<b, d>>].d)]
      Sxx == N * SumOver([d \in obs |-> X[d] * X[d]], obs)
               - SumOver(X, obs) * SumOver(X, obs)
      Syy == N * SumOver([d \in obs |-> Y[d] * Y[d]], obs)
               - SumOver(Y, obs) * SumOver(Y, obs)
      Sxy == N * SumOver([d \in obs |-> X[d] * Y[d]], obs)
               - SumOver(X, obs) * SumOver(Y, obs)
  IN IF obs = {} THEN NaN
     ELSE IF \E d \in obs : ~IsFinite(r.val[<<a, d>>]) \/ ~IsFinite(r.val[<<b, d>>])
     THEN NaN
     ELSE IF Sxx = 0 \/ Syy = 0 THEN NaN
     ELSE Frac(Sgn(Sxy) * Sxy * Sxy, Sxx * Syy)

\* returns.corr(): a square frame over the columns of r; obs records, per
\* pair, the dates whose returns entered the computation
Corr(r) ==
  [cols |-> r.cols,
   val |-> [p \in Range(r.cols) \X Range(r.cols) |-> Pearson(r, p[1], p[2])],
   obs |-> [p \in Range(r.cols) \X Range(r.cols) |-> PairObs(r, p[1], p[2])]]

EmptyCorr == [cols |-> <<>>, val |-> <<>>, obs |-> <<>>]

\* corr.empty or corr.shape[0] < 1
CorrIsEmpty(c) == Len(c.cols) = 0 \/ Len(c.cols) < 1

\* x >= y on finite correlation cells
Geq(x, y) == x.n * y.d >= y.n * x.d

\* a plausible slip: k=0 keeps the diagonal
Triu0(i, j) == i <= j

\* np.triu(np.ones_like(corr, dtype=bool), k=1): strictly above the diagonal
Triu1(i, j) == i < j

\* corr.where(upper): cells outside the mask become NaN
WhereUpper(c) ==
  [i \in 1..Len(c.cols), j \in 1..Len(c.cols) |->
     IF Triu1(i, j) THEN c.val[<<c.cols[i], c.cols[j]>>] ELSE NaN]

\* .stack(): the non-missing cells as (row label, column label, value)
\* entries, in row-major order
Stack(c, w) ==
  LET n    == Len(c.cols)
      kept == {p \in (1..n) \X (1..n) : ~IsNa(w[p[1], p[2]])}
      rank(p) == (p[1] - 1) * n + p[2]
  IN [k \in 1..Cardinality(kept) |->
        LET p == CHOOSE q \in kept :
                   Cardinality({o \in kept : rank(o) < rank(q)}) = k - 1
        IN [row |-> c.cols[p[1]], col |-> c.cols[p[2]], v |-> w[p[1], p[2]]]]

RECURSIVE DescOrders(_)
\* sort_values(ascending=False): every arrangement of the entries in
\* non-increasing order of value (the order of equal values is the sort
\* algorithm's, which the code does not fix)
DescOrders(S) ==
  IF S = {} THEN {<<>>}
  ELSE UNION {{<<m>> \o q : q \in DescOrders(S \ {m})} :
                m \in {x \in S : \A y \in S : Geq(x.v, y.v)}}

\* a plausible slip: .tail(5), the five smallest
TailN(q) == SubSeq(q, Len(q) - Min(TopN, Len(q)) + 1, Len(q))

\* .head(5)
HeadN(q) == SubSeq(q, 1, Min(TopN, Len(q)))

\* the results top_pairs.head(5) can print for correlation frame c
TopPairsOf(c) ==
  {HeadN(q) : q \in DescOrders(Range(Stack(c, WhereUpper(c))))}

\* ---------------------------------------------------------- normalisation
\* a plausible slip: col.iloc[0], the first cell whether missing or not
FirstCell(t, c) == t.val[<<c, t.idx[1]>>]

\* col.dropna().iloc[0]: the first non-missing cell of column c
FirstValid(t, c) ==
  LET i == CHOOSE j \in 1..Len(t.idx) :
             /\ ~IsNa(t.val[<<c, t.idx[j]>>])
             /\ \A h \in 1..(j - 1) : IsNa(t.val[<<c, t.idx[h]>>])
  IN t.val[<<c, t.idx[i]>>]

\* prices.divide(first_vals, axis=1)
Divide(t) ==
  Frame(t.cols, t.idx,
        [p \in Cells(t.cols, t.idx) |-> FDiv(t.val[p], FirstValid(t, p[1]))])

\* replace([np.inf, -np.inf], np.nan)
ReplaceInf(t) ==
  Frame(t.cols, t.idx, [p \in Cells(t.cols, t.idx) |-> InfToNaN(t.val[p])])

\* lines 114-121: divide, drop empty columns, drop empty rows, inf -> NaN
Normalized(p) == ReplaceInf(DropRowsAllNa(DropColsAllNa(Divide(p))))

\* normalized.notna().any().any()
AnyNotNa(t) ==
  \E c \in Range(t.cols) : \E d \in Range(t.idx) : ~IsNa(t.val[<<c, d>>])

\* ---------------------------------------------------------------- cleaning
\* valid_cols = [c for c in prices.columns if not prices[c].dropna().empty]
ValidCols(p) == SelectSeq(p.cols, LAMBDA c : ColHasData(p, c))

\* a plausible slip: the reduced price table is kept but returns and corr
\* are not recomputed from it
CleanedStale(p, r, c) ==
  IF Len(ValidCols(p)) # Len(p.cols)
  THEN [prices |-> Restrict(p, ValidCols(p), p.idx), returns |-> r, corr |-> c]
  ELSE [prices |-> p, returns |-> r, corr |-> c]

\* lines 102-108: the price table, returns table and correlation frame
\* after the drop of the columns with no data
Cleaned(p, r, c) ==
  IF Len(ValidCols(p)) # Len(p.cols)
  THEN LET q == Restrict(p, ValidCols(p), p.idx)
       IN [prices |-> q, returns |-> Returns(q), corr |-> Corr(Returns(q))]
  ELSE [prices |-> p, returns |-> r, corr |-> c]

\* ------------------------------------------------------------- acquisition
\* default = "SPY,QQQ,IWM,XLK,XLF,TLT"
Default ==
  <<"S", "P", "Y", ",", "Q", "Q", "Q", ",", "I", "W", "M", ",",
    "X", "L", "K", ",", "X", "L", "F", ",", "T", "L", "T">>

RECURSIVE Distinct(_)
\* the requested symbols, each once, in order of first request
Distinct(q) ==
  IF q = <<>> THEN <<>>
  ELSE LET r == Distinct(SubSeq(q, 1, Len(q) - 1))
       IN IF q[Len(q)] \in Range(r) THEN r ELSE Append(r, q[Len(q)])

\* the cells a price table can hold
PriceCells == {NaN} \cup {Frac(v, 1) : v \in PriceLevels}

\* what yf.download can hand back for the requested tickers, reduced to the
\* selected price field (lines 20-31): one column per requested symbol, up
\* to MaxRows dates; the first MaxLive symbols carry any mix of prices and
\* missing cells, the others come back with no data at all
ProviderFrames(tk) ==
  LET cols == Distinct(tk)
      live == Range(SubSeq(cols, 1, Min(MaxLive, Len(cols))))
  IN UNION {
       {Frame(cols, [i \in 1..k |-> i],
              [p \in Range(cols) \X (1..k) |->
                 IF p[1] \in live THEN f[p] ELSE NaN]) :
          f \in [live \X (1..k) -> PriceCells]} :
       k \in 0..MaxRows}

\* adj.columns = [str(c).upper() for c in adj.columns]
UpperCols(raw) ==
  LET up == [i \in 1..Len(raw.cols) |-> Upper(raw.cols[i])]
  IN Frame(up, raw.idx,
           [p \in Cells(up, raw.idx) |->
              raw.val[<<raw.cols[CHOOSE i \in 1..Len(up) : up[i] = p[1]],
                        p[2]>>]])

\* a plausible slip: no dropna(how="all") on the fetched frame
get_price_data_keep_rows(raw) == UpperCols(raw)

\* lines 33-35: upper-case the column labels, drop the all-missing rows
get_price_data(raw) == DropRowsAllNa(UpperCols(raw))

\* "_".join(tickers[:5]) + ("_more" if len(tickers) > 5 else "")
TickersPart(tk) ==
  [first |-> SubSeq(tk, 1, Min(NameTickers, Len(tk))),
   more |-> Len(tk) > NameTickers]

\* ------------------------------------------------------------------ state
VARIABLES
  pc,             \* position in main (or in the parse_tickers call)
  arg,            \* parse_tickers' parameter s (SpecParse)
  save_csv,       \* args.save_csv
  display,        \* args.display
  tickers,        \* tickers (main) / the value parse_tickers returned
  outdir,         \* os.makedirs(args.outdir) has run
  provider_calls, \* number of yf.download calls
  prices, returns, corr, normalized,
  csv_files,      \* CSV files written: name part and content
  png_files,      \* PNG files written
  shown,          \* charts displayed with plt.show()
  fig,            \* the handle in main's local fig (0: unbound)
  figs_made,      \* figures created so far
  figs_open,      \* figures pyplot still holds
  top_pairs,      \* what print(top_pairs.head(5)) printed
  out             \* the other messages printed, in order

vars ==
  <<pc, arg, save_csv, display, tickers, outdir, provider_calls, prices,
    returns, corr, normalized, csv_files, png_files, shown, fig, figs_made,
    figs_open, top_pairs, out>>

\* what is common to every initial state: nothing fetched, nothing written
Blank ==
  /\ arg = None
  /\ tickers = <<>>
  /\ outdir = FALSE
  /\ provider_calls = 0
  /\ prices = EmptyFrame
  /\ returns = EmptyFrame
  /\ corr = EmptyCorr
  /\ normalized = EmptyFrame
  /\ csv_files = {}
  /\ png_files = {}
  /\ shown = {}
  /\ fig = 0
  /\ figs_made = 0
  /\ figs_open = {}
  /\ top_pairs = <<>>
  /\ out = <<>>

\* lines 44-67: the flags are parsed; nothing else has happened
Init ==
  /\ pc = "start"
  /\ save_csv \in BOOLEAN
  /\ display \in BOOLEAN
  /\ Blank

ArgStrings == StringsUpTo(ArgAlphabet, MaxArgLen)

\* lines 69-74: the ticker list for a --tickers value a and a prompt answer u
Resolved(a, u) ==
  IF Truthy(a) THEN parse_tickers(a)
  ELSE IF Strip(u) # <<>> THEN parse_tickers(Str(Strip(u)))
  ELSE parse_tickers(Str(Default))

\* lines 69-78
Resolve ==
  /\ pc = "start"
  /\ \E a \in {None} \cup {Str(c) : c \in ArgStrings} : \E u \in ArgStrings :
       /\ tickers' = Resolved(a, u)
       /\ IF Resolved(a, u) = <<>>
          THEN pc' = "exit_no_tickers" /\ out' = Append(out, "no_tickers")
          ELSE pc' = "resolved" /\ out' = out
  /\ UNCHANGED <<arg, save_csv, display, outdir, provider_calls, prices,
                 returns, corr, normalized, csv_files, png_files, shown, fig,
                 figs_made, figs_open, top_pairs>>

\* a plausible slip: the CSV export placed ahead of the "no data" check
FetchExportFirst ==
  /\ pc = "resolved"
  /\ outdir' = TRUE
  /\ provider_calls' = provider_calls + 1
  /\ \E raw \in ProviderFrames(tickers) :
       /\ prices' = get_price_data(raw)
       /\ csv_files' = IF save_csv
                       THEN csv_files \cup {[name |-> TickersPart(tickers),
                                             table |-> get_price_data(raw)]}
                       ELSE csv_files
       /\ IF IsEmpty(get_price_data(raw))
          THEN pc' = "exit_no_data" /\ out' = out \o <<"fetching", "no_data">>
          ELSE pc' = "fetched" /\ out' = Append(out, "fetching")
  /\ UNCHANGED <<arg, save_csv, display, tickers, returns, corr, normalized,
                 png_files, shown, fig, figs_made, figs_open, top_pairs>>

\* lines 80-87
Fetch ==
  /\ pc = "resolved"
  /\ outdir' = TRUE
  /\ provider_calls' = provider_calls + 1
  /\ \E raw \in ProviderFrames(tickers) :
       /\ prices' = get_price_data(raw)
       /\ IF IsEmpty(get_price_data(raw))
          THEN pc' = "exit_no_data" /\ out' = out \o <<"fetching", "no_data">>
          ELSE pc' = "fetched" /\ out' = Append(out, "fetching")
  /\ UNCHANGED <<arg, save_csv, display, tickers, returns, corr, normalized,
                 csv_files, png_files, shown, fig, figs_made, figs_open,
                 top_pairs>>

\* lines 89-95
Export ==
  /\ pc = "fetched"
  /\ IF save_csv
     THEN /\ csv_files' = csv_files \cup
                 {[name |-> TickersPart(tickers), table |-> prices]}
          /\ out' = Append(out, "saved_csv")
     ELSE UNCHANGED <<csv_files, out>>
  /\ pc' = "returns"
  /\ UNCHANGED <<arg, save_csv, display, tickers, outdir, provider_calls,
                 prices, returns, corr, normalized, png_files, shown, fig,
                 figs_made, figs_open, top_pairs>>

\* lines 97-99
ComputeReturns ==
  /\ pc = "returns"
  /\ returns' = Returns(prices)
  /\ corr' = Corr(Returns(prices))
  /\ pc' = "clean"
  /\ UNCHANGED <<arg, save_csv, display, tickers, outdir, provider_calls,
                 prices, normalized, csv_files, png_files, shown, fig,
                 figs_made, figs_open, top_pairs, out>>

\* lines 101-112
Clean ==
  /\ pc = "clean"
  /\ LET n == Cleaned(prices, returns, corr) IN
       /\ prices' = n.prices
       /\ returns' = n.returns
       /\ corr' = n.corr
       /\ pc' = IF IsEmpty(n.prices) THEN "exit_empty_clean" ELSE "normalize"
       /\ out' = out
            \o (IF Len(ValidCols(prices)) # Len(prices.cols)
                THEN <<"dropping">> ELSE <<>>)
            \o (IF IsEmpty(n.prices) THEN <<"no_price_data">> ELSE <<>>)
  /\ UNCHANGED <<arg, save_csv, display, tickers, outdir, provider_calls,
                 normalized, csv_files, png_files, shown, fig, figs_made,
                 figs_open, top_pairs>>

\* lines 114-121
Normalize ==
  /\ pc = "normalize"
  /\ normalized' = Normalized(prices)
  /\ pc' = "plot1"
  /\ UNCHANGED <<arg, save_csv, display, tickers, outdir, provider_calls,
                 prices, returns, corr, csv_files, png_files, shown, fig,
                 figs_made, figs_open, top_pairs, out>>

\* lines 126-135: skip the chart, or create its figure and draw on it
Plot1 ==
  /\ pc = "plot1"
  /\ IF ~AnyNotNa(normalized)
     THEN /\ out' = Append(out, "no_finite")
          /\ pc' = "heatmap"
          /\ UNCHANGED <<fig, figs_made, figs_open>>
     ELSE /\ fig' = figs_made + 1
          /\ figs_made' = figs_made + 1
          /\ figs_open' = figs_open \cup {figs_made + 1}
          /\ pc' = "plot1_out"
          /\ out' = out
  /\ UNCHANGED <<arg, save_csv, display, tickers, outdir, provider_calls,
                 prices, returns, corr, normalized, csv_files, png_files,
                 shown, top_pairs>>

\* lines 137-143 (which = normalized_price_chart), 159-165 (correlation_heatmap)
Output(at, which, next) ==
  /\ pc = at
  /\ IF display
     THEN shown' = shown \cup {which} /\ png_files' = png_files
     ELSE png_files' = png_files \cup {which} /\ shown' = shown
  /\ out' = Append(out, which)
  /\ pc' = next
  /\ UNCHANGED <<arg, save_csv, display, tickers, outdir, provider_calls,
                 prices, returns, corr, normalized, csv_files, fig, figs_made,
                 figs_open, top_pairs>>

\* lines 145, 167: plt.close(fig)
CloseFig(at, next) ==
  /\ pc = at
  /\ figs_open' = figs_open \ {fig}
  /\ pc' = next
  /\ UNCHANGED <<arg, save_csv, display, tickers, outdir, provider_calls,
                 prices, returns, corr, normalized, csv_files, png_files,
                 shown, fig, figs_made, top_pairs, out>>

\* plt.show() or fig.savefig() raises: the exception leaves main
Raise(at) ==
  /\ pc = at
  /\ pc' = "raised"
  /\ UNCHANGED <<arg, save_csv, display, tickers, outdir, provider_calls,
                 prices, returns, corr, normalized, csv_files, png_files,
                 shown, fig, figs_made, figs_open, top_pairs, out>>

Plot1Out == Output("plot1_out", "normalized_price_chart", "plot1_close")

Plot1Close == CloseFig("plot1_close", "heatmap")

Plot1OutRaises == Raise("plot1_out")

\* lines 150-157: stop on an empty matrix, or create the figure and draw
Heatmap ==
  /\ pc = "heatmap"
  /\ IF CorrIsEmpty(corr)
     THEN /\ out' = Append(out, "corr_empty")
          /\ pc' = "exit_corr_empty"
          /\ UNCHANGED <<fig, figs_made, figs_open>>
     ELSE /\ fig' = figs_made + 1
          /\ figs_made' = figs_made + 1
          /\ figs_open' = figs_open \cup {figs_made + 1}
          /\ pc' = "heat_out"
          /\ out' = out
  /\ UNCHANGED <<arg, save_csv, display, tickers, outdir, provider_calls,
                 prices, returns, corr, normalized, csv_files, png_files,
                 shown, top_pairs>>

HeatOut == Output("heat_out", "correlation_heatmap", "heat_close")

HeatClose == CloseFig("heat_close", "toppairs")

HeatOutRaises == Raise("heat_out")

\* lines 169-173
TopPairs ==
  /\ pc = "toppairs"
  /\ top_pairs' \in TopPairsOf(corr)
  /\ out' = Append(out, "highest")
  /\ pc' = "done"
  /\ UNCHANGED <<arg, save_csv, display, tickers, outdir, provider_calls,
                 prices, returns, corr, normalized, csv_files, png_files,
                 shown, fig, figs_made, figs_open>>

\* main, every library call succeeding
Next ==
  \/ Resolve \/ Fetch \/ Export \/ ComputeReturns \/ Clean \/ Normalize
  \/ Plot1 \/ Plot1Out \/ Plot1Close \/ Heatmap \/ HeatOut \/ HeatClose
  \/ TopPairs

Spec == Init /\ [][Next]_vars

\* main, where showing or saving a chart may raise
NextFail == Next \/ Plot1OutRaises \/ HeatOutRaises

SpecFail == Init /\ [][NextFail]_vars

\* ------------------------------------------------ the derived series alone
\* the price table over the first n tickers and k dates with cells f
FrameOf(n, k, f) ==
  Frame(SubSeq(DerivedTickers, 1, n), [i \in 1..k |-> i], f)

\* main at line 97 with any price table it can find there: some column, some
\* date, no date row entirely missing (get_price_data dropped those)
InitDerived ==
  /\ pc = "returns"
  /\ save_csv = FALSE
  /\ display = FALSE
  /\ arg = None
  /\ \E n \in 1..Len(DerivedTickers), k \in 1..MaxDates :
       \E f \in [Range(SubSeq(DerivedTickers, 1, n)) \X (1..k) -> PriceCells] :
         /\ prices = FrameOf(n, k, f)
         /\ \A d \in 1..k : RowHasData(FrameOf(n, k, f), d)
  /\ tickers = prices.cols
  /\ outdir = TRUE
  /\ provider_calls = 1
  /\ returns = EmptyFrame
  /\ corr = EmptyCorr
  /\ normalized = EmptyFrame
  /\ csv_files = {}
  /\ png_files = {}
  /\ shown = {}
  /\ fig = 0
  /\ figs_made = 0
  /\ figs_open = {}
  /\ top_pairs = <<>>
  /\ out = <<"fetching">>

NextDerived == ComputeReturns \/ Clean \/ Normalize

SpecDerived == InitDerived /\ [][NextDerived]_vars

\* ------------------------------------------------------ parse_tickers alone
\* a call of parse_tickers on any string over ParseAlphabet, or on None
InitParse ==
  /\ pc = "call"
  /\ arg \in {None} \cup {Str(c) : c \in StringsUpTo(ParseAlphabet, MaxLen)}
  /\ save_csv = FALSE
  /\ display = FALSE
  /\ tickers = <<>>
  /\ outdir = FALSE
  /\ provider_calls = 0
  /\ prices = EmptyFrame
  /\ returns = EmptyFrame
  /\ corr = EmptyCorr
  /\ normalized = EmptyFrame
  /\ csv_files = {}
  /\ png_files = {}
  /\ shown = {}
  /\ fig = 0
  /\ figs_made = 0
  /\ figs_open = {}
  /\ top_pairs = <<>>
  /\ out = <<>>

\* lines 38-41: the call returns
CallParse ==
  /\ pc = "call"
  /\ tickers' = parse_tickers(arg)
  /\ pc' = "returned"
  /\ UNCHANGED <<arg, save_csv, display, outdir, provider_calls, prices,
                 returns, corr, normalized, csv_files, png_files, shown, fig,
                 figs_made, figs_open, top_pairs, out>>

NextParse == CallParse

SpecParse == InitParse /\ [][NextParse]_vars

\* ---------------------------------------------------- the top-pairs report
\* the correlation values k / MaxLevel of SpecTop
Levels == {Frac(k, MaxLevel) : k \in (-MaxLevel)..MaxLevel}

\* a correlation frame over the first n tickers as returns.corr() builds
\* them from a returns table without missing cells: symmetric; a ticker in
\* flat (constant returns) has an undefined correlation with every ticker,
\* itself included; the others have 1.0 on the diagonal and u between them
CorrOf(n, flat, u) ==
  LET cols == SubSeq(TopTickers, 1, n)
      at(a) == CHOOSE i \in 1..n : cols[i] = a
  IN [cols |-> cols,
      val |-> [p \in Range(cols) \X Range(cols) |->
                 IF p[1] \in flat \/ p[2] \in flat THEN NaN
                 ELSE IF p[1] = p[2] THEN Frac(1, 1)
                 ELSE u[<<Min(at(p[1]), at(p[2])),
                          at(p[1]) + at(p[2]) - Min(at(p[1]), at(p[2]))>>]],
      obs |-> [p \in Range(cols) \X Range(cols) |-> {1, 2}]]

\* main at line 169 with any such correlation frame
InitTop ==
  /\ pc = "toppairs"
  /\ save_csv = FALSE
  /\ display = TRUE
  /\ arg = None
  /\ \E n \in 1..Len(TopTickers) :
       \E flat \in SUBSET Range(SubSeq(TopTickers, 1, n)) :
         \E u \in [{p \in (1..n) \X (1..n) : p[1] < p[2]} -> Levels] :
           /\ corr = CorrOf(n, flat, u)
           /\ tickers = SubSeq(TopTickers, 1, n)
  /\ outdir = TRUE
  /\ provider_calls = 1
  /\ prices = EmptyFrame
  /\ returns = EmptyFrame
  /\ normalized = EmptyFrame
  /\ csv_files = {}
  /\ png_files = {}
  /\ shown = {"normalized_price_chart", "correlation_heatmap"}
  /\ fig = 2
  /\ figs_made = 2
  /\ figs_open = {}
  /\ top_pairs = <<>>
  /\ out = <<"fetching", "normalized_price_chart", "correlation_heatmap">>

NextTop == TopPairs

SpecTop == InitTop /\ [][NextTop]_vars

\* ------------------------------------------------------------------ claims
\* positions in main after the cleaning step (lines 101-112) has run
AfterClean ==
  {"normalize", "plot1", "plot1_out", "plot1_close", "heatmap", "heat_out",
   "heat_close", "toppairs", "done"}

\* positions at which main has ended
Ended ==
  {"exit_no_tickers", "exit_no_data", "exit_empty_clean", "exit_corr_empty",
   "done", "raised"}

\* C1: once parse_tickers(s) has returned, its result is <<>> for a missing
\* or empty s; otherwise it has one entry per comma-delimited segment of s
\* that holds a non-whitespace character, in left-to-right order (repeats
\* kept), and each entry is the segment from its first to its last
\* non-whitespace character, upper-cased character by character.
C1_ParseTickers ==
  pc = "returned" =>
    IF ~arg.present \/ arg.chars = <<>> THEN tickers = <<>>
    ELSE
      LET t      == arg.chars
          cuts   == {0, Len(t) + 1} \cup {i \in 1..Len(t) : t[i] = ","}
          segs   == {g \in cuts \X cuts :
                       g[1] < g[2] /\ \A r \in cuts : ~(g[1] < r /\ r < g[2])}
          ink(g) == {i \in (g[1] + 1)..(g[2] - 1) : t[i] \notin Whitespace}
          kept   == {g \in segs : ink(g) # {}}
      IN /\ Len(tickers) = Cardinality(kept)
         /\ \A g \in kept :
              LET k  == 1 + Cardinality({o \in kept : o[1] < g[1]})
                  lo == CHOOSE i \in ink(g) : \A j \in ink(g) : i <= j
                  hi == CHOOSE i \in ink(g) : \A j \in ink(g) : j <= i
              IN /\ Len(tickers[k]) = hi - lo + 1
                 /\ \A i \in 1..(hi - lo + 1) :
                      tickers[k][i] = UpperChar(t[lo + i - 1])

\* C1 witness: a call whose input has lower case, padding and an empty token
\* and which returned two tickers
C1_Witness ==
  /\ pc = "returned"
  /\ arg.chars = <<"a", ",", ",", " ", "B">> \/ arg.chars = <<"a", ",", " ", "B">>
  /\ tickers = << <<"A">>, <<"B">> >>

\* C2: a run that ended at the "no tickers" or the "no data returned" exit
\* has written no CSV and no PNG file, whatever --save-csv and --display
\* are, and at the "no tickers" exit the provider was never called.
C2_NoFilesOnEarlyExit ==
  /\ pc \in {"exit_no_tickers", "exit_no_data"} =>
       csv_files = {} /\ png_files = {}
  /\ pc = "exit_no_tickers" => provider_calls = 0

\* C2 witness: the provider returned nothing in a run asked to save the CSV
\* and to save (not display) the charts
C2_Witness ==
  /\ pc = "exit_no_data"
  /\ save_csv /\ ~display
  /\ provider_calls = 1

\* C3 (as claimed): after cleaning, for every two tickers A and B the dates
\* that entered corr(A, B) are exactly the dates on which both A's and B's
\* return are defined, whatever a third ticker holds on those dates.
C3_PairwiseComplete ==
  pc \in AfterClean =>
    \A a \in Range(corr.cols), b \in Range(corr.cols) :
      a # b =>
        corr.obs[<<a, b>>] =
          {d \in Range(prices.idx) :
             /\ ~IsNa(PctChange(prices).val[<<a, d>>])
             /\ ~IsNa(PctChange(prices).val[<<b, d>>])}

\* C3 (amended): after cleaning, the dates that entered corr(A, B) are
\* exactly the dates on which the return of every ticker of the price table
\* is defined: a missing return of a third ticker removes the date.
C3_ListwiseComplete ==
  pc \in AfterClean =>
    \A a \in Range(corr.cols), b \in Range(corr.cols) :
      corr.obs[<<a, b>>] =
        {d \in Range(prices.idx) :
           \A c \in Range(prices.cols) : ~IsNa(PctChange(prices).val[<<c, d>>])}

\* C3 witness: a date on which A's and B's returns are defined and a third
\* ticker's is not, left out of corr(A, B)
C3_Witness ==
  /\ pc \in AfterClean
  /\ \E a \in Range(corr.cols), b \in Range(corr.cols), c \in Range(corr.cols) :
       \E d \in Range(prices.idx) :
         /\ a # b /\ a # c /\ b # c
         /\ ~IsNa(PctChange(prices).val[<<a, d>>])
         /\ ~IsNa(PctChange(prices).val[<<b, d>>])
         /\ IsNa(PctChange(prices).val[<<c, d>>])
         /\ d \notin corr.obs[<<a, b>>]

\* C4: every CSV written holds the column-reduced price table: none of its
\* ticker columns is entirely missing.
C4_CsvIsCleaned ==
  \A f \in csv_files : \A c \in Range(f.table.cols) : ColHasData(f.table, c)

\* C5 (as claimed): when the normalized chart is plotted, every column of the
\* normalized table has a defined value and holds 1.0 at the first
\* non-missing date of that ticker's prices.
C5_FirstIsOne ==
  (pc \in AfterClean \ {"normalize"} /\ AnyNotNa(normalized)) =>
    \A c \in Range(normalized.cols) :
      LET d0 == CHOOSE d \in Range(prices.idx) :
                  /\ ~IsNa(prices.val[<<c, d>>])
                  /\ \A e \in Range(prices.idx) :
                       e < d => IsNa(prices.val[<<c, e>>])
      IN /\ ColHasData(normalized, c)
         /\ d0 \in Range(normalized.idx)
         /\ normalized.val[<<c, d0>>] = Frac(1, 1)

\* C5 (amended): once normalized, a ticker whose first non-missing price is
\* not zero is a column of the normalized table and holds 1.0 at the date of
\* that price; a ticker whose first non-missing price is zero has no defined
\* normalized value, and it is still a column of the table exactly when one
\* of its prices is not zero.
C5_FirstIsOneUnlessZero ==
  pc \in AfterClean \ {"normalize"} =>
    \A c \in Range(prices.cols) :
      LET d0 == CHOOSE d \in Range(prices.idx) :
                  /\ ~IsNa(prices.val[<<c, d>>])
                  /\ \A e \in Range(prices.idx) :
                       e < d => IsNa(prices.val[<<c, e>>])
      IN IF prices.val[<<c, d0>>].n # 0
         THEN /\ c \in Range(normalized.cols)
              /\ d0 \in Range(normalized.idx)
              /\ normalized.val[<<c, d0>>] = Frac(1, 1)
         ELSE /\ c \in Range(normalized.cols) => ~ColHasData(normalized, c)
              /\ c \in Range(normalized.cols) <=>
                   \E d \in Range(prices.idx) :
                     IsFinite(prices.val[<<c, d>>]) /\ prices.val[<<c, d>>].n # 0

\* C5 witness: a plotted normalized table with a column that starts at 1.0
\* and a column, from a zero first price, that is entirely undefined
C5_Witness ==
  /\ pc = "plot1"
  /\ AnyNotNa(normalized)
  /\ \E c \in Range(normalized.cols) : ~ColHasData(normalized, c)
  /\ \E c \in Range(normalized.cols) : \E d \in Range(normalized.idx) :
       normalized.val[<<c, d>>] = Frac(1, 1) /\ prices.val[<<c, d>>] = Frac(2, 1)

\* C6: the printed report holds no self-pair, every pair is taken from
\* strictly above the diagonal (its first ticker precedes its second in the
\* matrix), and no unordered pair appears twice, mirrored or not.
C6_NoSelfNoMirror ==
  pc = "done" =>
    \A i \in 1..Len(top_pairs) :
      /\ top_pairs[i].row # top_pairs[i].col
      /\ \E x \in 1..Len(corr.cols), y \in 1..Len(corr.cols) :
           x < y /\ corr.cols[x] = top_pairs[i].row
                 /\ corr.cols[y] = top_pairs[i].col
      /\ \A j \in 1..Len(top_pairs) :
           i # j => {top_pairs[i].row, top_pairs[i].col}
                      # {top_pairs[j].row, top_pairs[j].col}

\* C6 witness: a full report of five pairs was printed
C6_Witness == pc = "done" /\ Len(top_pairs) = 5 /\ Len(corr.cols) = 4

\* C7 (as claimed): the report lists exactly min(5, n(n-1)/2) pairs, in
\* non-increasing order of correlation, each at least as large as every
\* unlisted pair.
C7_TopFiveOfAll ==
  pc = "done" =>
    LET n      == Len(corr.cols)
        pairs  == {p \in (1..n) \X (1..n) : p[1] < p[2]}
        listed == {p \in pairs : \E i \in 1..Len(top_pairs) :
                     /\ top_pairs[i].row = corr.cols[p[1]]
                     /\ top_pairs[i].col = corr.cols[p[2]]}
        v(p)   == corr.val[<<corr.cols[p[1]], corr.cols[p[2]]>>]
    IN /\ Len(top_pairs) = Min(5, (n * (n - 1)) \div 2)
       /\ Cardinality(listed) = Len(top_pairs)
       /\ \A i \in 1..(Len(top_pairs) - 1) :
            Geq(top_pairs[i].v, top_pairs[i + 1].v)
       /\ \A p \in listed, q \in pairs \ listed :
            IsFinite(v(p)) /\ IsFinite(v(q)) /\ Geq(v(p), v(q))

\* C7 (amended): with k the number of unordered pairs whose correlation is
\* defined, the report lists exactly min(5, k) of those pairs, each with its
\* value of the matrix, in non-increasing order of correlation, each at
\* least as large as every unlisted pair with a defined correlation.
C7_TopFiveOfDefined ==
  pc = "done" =>
    LET n       == Len(corr.cols)
        v(p)    == corr.val[<<corr.cols[p[1]], corr.cols[p[2]]>>]
        defined == {p \in (1..n) \X (1..n) : p[1] < p[2] /\ ~IsNa(v(p))}
        listed  == {p \in defined : \E i \in 1..Len(top_pairs) :
                      /\ top_pairs[i].row = corr.cols[p[1]]
                      /\ top_pairs[i].col = corr.cols[p[2]]
                      /\ top_pairs[i].v = v(p)}
    IN /\ Len(top_pairs) = Min(5, Cardinality(defined))
       /\ Cardinality(listed) = Len(top_pairs)
       /\ \A i \in 1..(Len(top_pairs) - 1) :
            Geq(top_pairs[i].v, top_pairs[i + 1].v)
       /\ \A p \in listed, q \in defined \ listed : Geq(v(p), v(q))

\* C7 witness: six defined pairs of differing correlation, five of them
\* listed
C7_Witness ==
  /\ pc = "done"
  /\ Len(top_pairs) = 5
  /\ top_pairs[1].v # top_pairs[5].v
  /\ \A a \in Range(corr.cols), b \in Range(corr.cols) : ~IsNa(corr.val[<<a, b>>])

\* C8: when main has ended, however it ended, no figure it created is still
\* open, and at no point are two figures open at once.
C8_FiguresReleased ==
  /\ pc \in Ended => figs_open = {}
  /\ Cardinality(figs_open) <= 1

\* C9: from the end of cleaning on, and so at the heatmap and top-pairs
\* steps, the correlation matrix's tickers are the price table's columns,
\* the returns table is the one derived from the current price table and
\* the correlation matrix the one derived from that returns table.
C9_CorrIsCurrent ==
  pc \in AfterClean =>
    /\ Range(corr.cols) = Range(prices.cols)
    /\ returns = Returns(prices)
    /\ corr = Corr(returns)

\* C9 witness: the top-pairs step of a run whose cleaning removed a column
C9_Witness ==
  /\ pc = "done"
  /\ \E i \in 1..Len(out) : out[i] = "dropping"
  /\ Len(prices.cols) < Len(Distinct(tickers))

\* C10: a run past the "no data returned" check never stands at the "no
\* price data after dropping empty columns" exit nor at the "correlation
\* matrix is empty" exit: before the cleaning step some column of the price
\* table has data, so the test of line 110 fails; from the cleaning step to
\* the heatmap step the price table and the correlation matrix are not
\* empty, so the test of line 150 fails; and past the heatmap step the
\* heatmap has been shown or saved.
C10_HeatmapAlwaysRendered ==
  /\ pc \notin {"exit_empty_clean", "exit_corr_empty"}
  /\ pc \in {"fetched", "returns", "clean"} =>
       /\ ~IsEmpty(prices)
       /\ ValidCols(prices) # <<>>
  /\ pc \in {"normalize", "plot1", "plot1_out", "plot1_close", "heatmap"} =>
       /\ ~IsEmpty(prices)
       /\ ~CorrIsEmpty(corr)
  /\ pc \in {"heat_close", "toppairs", "done"} =>
       "correlation_heatmap" \in shown \cup png_files

\* C10 witness: a finished run on a single-date price table, whose returns
\* table has no row, with the heatmap rendered
C10_Witness ==
  /\ pc = "done"
  /\ Len(prices.idx) = 1
  /\ Len(returns.idx) = 0
  /\ "correlation_heatmap" \in shown \cup png_files

====
